---- MODULE Spec2Model ----
(***************************************************************************)
(* Model of loreal.py: the two record-linkage functions                    *)
(* rule_based_mapping and fuzzy_mapping, and the main() script that loads  *)
(* two tables, runs one of them and exports the result.                    *)
(*                                                                         *)
(* A table (pandas DataFrame) is a record [columns, rows]: a set of column *)
(* names and a sequence of rows, each row a function from the columns to   *)
(* cell values.  Cell values are strings, written as tuples of characters  *)
(* so that the similarity ratio can be computed on them.                   *)
(***************************************************************************)
EXTENDS Integers, Sequences, FiniteSets, TLC

(* ---------------------------- bounds ----------------------------------- *)
MaxPortalRows == 2
MaxCatalogueRows == 2

(* ------------------------ program constants ---------------------------- *)
DefaultThreshold == 90
SliderMin == 50
SliderMax == 100

KeyCol == "ASIN"
TargetCol == "New EAN"
OtherCol == "SKU"

PortalKeyMsg == "Portal file must contain an 'ASIN' column."
CatalogueKeyMsg == "Catalogue file must contain an 'ASIN' column."
CatalogueTargetMsg == "Catalogue file must contain a 'New EAN' column."

(* ------------------------------ values --------------------------------- *)
ASIN1 == <<"A", "S", "I", "N", "1">>
ASIN2 == <<"A", "S", "I", "N", "2">>
ASIN == <<"A", "S", "I", "N">>
Keys == {ASIN1, ASIN2, ASIN}
Targets == {<<"X">>, <<"Y">>}
OtherValues == {<<"s">>}

\* the missing value of a cell (None / NaN)
NaN == <<"NaN">>
\* the Python value None returned instead of a table
None == [none |-> TRUE]

\* thresholds a caller of fuzzy_mapping may pass; main() passes the slider's
Thresholds == {-1, 80, 81, DefaultThreshold, 101}
SliderValues == {t \in Thresholds : SliderMin <= t /\ t <= SliderMax}

ColumnValues(c) ==
    IF c = KeyCol THEN Keys ELSE IF c = TargetCol THEN Targets ELSE OtherValues

RowsOver(cols) ==
    {r \in [cols -> Keys \cup Targets \cup OtherValues] :
        \A c \in cols : r[c] \in ColumnValues(c)}

SeqsUpTo(S, n) == UNION {[1..k -> S] : k \in 0..n}

TablesOver(cols, n) ==
    {[columns |-> cols, rows |-> rs] : rs \in SeqsUpTo(RowsOver(cols), n)}

\* what pd.read_csv / pd.read_excel can hand to the mapping functions
PortalTables ==
    TablesOver({KeyCol}, MaxPortalRows) \cup TablesOver({OtherCol}, MaxPortalRows)

CatalogueTables ==
    TablesOver({KeyCol, TargetCol}, MaxCatalogueRows)
        \cup TablesOver({KeyCol}, MaxCatalogueRows)
        \cup TablesOver({TargetCol}, MaxCatalogueRows)
        \cup TablesOver({OtherCol}, MaxCatalogueRows)

EmptyTable == [columns |-> {}, rows |-> <<>>]

(* --------------------------- pandas helpers ---------------------------- *)
\* a row with one more (or one overwritten) column
WithColumn(r, cols, c, v) ==
    [d \in cols \cup {c} |-> IF d = c THEN v ELSE r[d]]

\* df[name].tolist()
tolist(df, c) == [i \in 1..Len(df.rows) |-> df.rows[i][c]]

\* df[[...]]: column projection
Project(df, cols) ==
    [columns |-> cols,
     rows |-> [i \in 1..Len(df.rows) |-> [c \in cols |-> df.rows[i][c]]]]

RECURSIVE MergeRows(_, _, _)
MergeRows(lrows, lcols, right) ==
    IF lrows = <<>> THEN <<>>
    ELSE LET l == Head(lrows)
             matches == SelectSeq(right.rows, LAMBDA r : r[KeyCol] = l[KeyCol])
             out == IF matches = <<>>
                    THEN <<WithColumn(l, lcols, TargetCol, NaN)>>
                    ELSE [j \in 1..Len(matches) |->
                             WithColumn(l, lcols, TargetCol, matches[j][TargetCol])]
         IN out \o MergeRows(Tail(lrows), lcols, right)

\* df_portal.join(df_catalogue["New EAN"]): joins on row position, not on the key
merge_by_position(left, right) ==
    [columns |-> left.columns \cup {TargetCol},
     rows |-> [i \in 1..Len(left.rows) |->
                 WithColumn(left.rows[i], left.columns, TargetCol,
                            IF i <= Len(right.rows)
                            THEN right.rows[i][TargetCol] ELSE NaN)]]

\* pd.merge(left, right, on="ASIN", how="left"), right = catalogue[["ASIN","New EAN"]]
merge(left, right) ==
    [columns |-> left.columns \cup {TargetCol},
     rows |-> MergeRows(left.rows, left.columns, right)]

(* ------------------------- rule_based_mapping -------------------------- *)
\* The result of a call: the returned value, the messages passed to
\* st.error, the portal object as the call leaves it, whether the returned
\* object is the portal object itself, and whether the join/match step ran.
Failure(df_portal, msg) ==
    [ret |-> None, errors |-> <<msg>>, portal |-> df_portal,
     alias |-> FALSE, ran |-> FALSE]

\* the catalogue checks made before the portal check
rule_based_mapping_reordered(df_portal, df_catalogue) ==
    IF KeyCol \notin df_catalogue.columns
    THEN Failure(df_portal, CatalogueKeyMsg)
    ELSE IF TargetCol \notin df_catalogue.columns
    THEN Failure(df_portal, CatalogueTargetMsg)
    ELSE IF KeyCol \notin df_portal.columns
    THEN Failure(df_portal, PortalKeyMsg)
    ELSE [ret |-> merge(df_portal, Project(df_catalogue, {KeyCol, TargetCol})),
          errors |-> <<>>, portal |-> df_portal, alias |-> FALSE, ran |-> TRUE]

rule_based_mapping(df_portal, df_catalogue) ==
    IF KeyCol \notin df_portal.columns
    THEN Failure(df_portal, PortalKeyMsg)
    ELSE IF KeyCol \notin df_catalogue.columns
    THEN Failure(df_portal, CatalogueKeyMsg)
    ELSE IF TargetCol \notin df_catalogue.columns
    THEN Failure(df_portal, CatalogueTargetMsg)
    ELSE [ret |-> merge(df_portal, Project(df_catalogue, {KeyCol, TargetCol})),
          errors |-> <<>>, portal |-> df_portal, alias |-> FALSE, ran |-> TRUE]

(* ----------------------------- fuzz.ratio ------------------------------ *)
Max(a, b) == IF a >= b THEN a ELSE b

\* length of the longest common subsequence
RECURSIVE LCS(_, _)
LCS(s, t) ==
    IF s = <<>> \/ t = <<>> THEN 0
    ELSE IF Head(s) = Head(t) THEN 1 + LCS(Tail(s), Tail(t))
    ELSE Max(LCS(Tail(s), t), LCS(s, Tail(t)))

\* insertions + deletions turning s into t
indel_distance(s, t) == Len(s) + Len(t) - 2 * LCS(s, t)

\* fuzz.ratio(s, t) = 100 * (1 - indel_distance / (len(s) + len(t))), kept as
\* the exact fraction num / den; two empty strings are identical (100)
ratio(s, t) ==
    IF Len(s) + Len(t) = 0 THEN [num |-> 100, den |-> 1]
    ELSE [num |-> 100 * (Len(s) + Len(t) - indel_distance(s, t)),
          den |-> Len(s) + Len(t)]

ScoreGT(a, b) == a.num * b.den > b.num * a.den
ScoreGE(a, b) == a.num * b.den >= b.num * a.den
\* score >= threshold, threshold an integer
ScoreAtLeast(a, t) == a.num >= t * a.den
IsOptimal(a) == a.num = 100 * a.den

(* -------------------------- process.extractOne ------------------------- *)
NoResult == [found |-> FALSE]

\* a scan that lets a later equal score replace the current best
RECURSIVE ScanLastWins(_, _, _, _)
ScanLastWins(query, choices, i, result) ==
    IF i > Len(choices) THEN result
    ELSE LET score == ratio(query, choices[i])
             better == ~result.found \/ ScoreGE(score, result.score)
             next == IF better
                     THEN [found |-> TRUE, choice |-> choices[i],
                           score |-> score, index |-> i]
                     ELSE result
         IN ScanLastWins(query, choices, i + 1, next)

extractOne_last_wins(query, choices) == ScanLastWins(query, choices, 1, NoResult)

\* one pass over the choices in order: a choice replaces the current best
\* only when its score is strictly higher; the pass stops at a score of 100
RECURSIVE Scan(_, _, _, _)
Scan(query, choices, i, result) ==
    IF i > Len(choices) THEN result
    ELSE LET score == ratio(query, choices[i])
             better == ~result.found \/ ScoreGT(score, result.score)
             next == IF better
                     THEN [found |-> TRUE, choice |-> choices[i],
                           score |-> score, index |-> i]
                     ELSE result
         IN IF better /\ IsOptimal(score) THEN next
            ELSE Scan(query, choices, i + 1, next)

extractOne(query, choices) == Scan(query, choices, 1, NoResult)

(* ---------------------------- fuzzy_mapping ---------------------------- *)
\* list.index(x): the first position holding x
index(list, x) ==
    CHOOSE i \in 1..Len(list) :
        list[i] = x /\ \A j \in 1..(i - 1) : list[j] # x

\* the comparison with the threshold made strict
match_asin_strict(asin, catalogue_asins, catalogue_new_eans, threshold) ==
    LET result == extractOne(asin, catalogue_asins)
    IN IF result.found /\ result.score.num > threshold * result.score.den
       THEN catalogue_new_eans[index(catalogue_asins, result.choice)]
       ELSE NaN

match_asin(asin, catalogue_asins, catalogue_new_eans, threshold) ==
    LET result == extractOne(asin, catalogue_asins)
    IN IF result.found /\ ScoreAtLeast(result.score, threshold)
       THEN LET matched_asin == result.choice
                idx == index(catalogue_asins, matched_asin)
            IN catalogue_new_eans[idx]
       ELSE NaN

fuzzy_mapping(df_portal, df_catalogue, threshold) ==
    IF KeyCol \notin df_portal.columns
    THEN Failure(df_portal, PortalKeyMsg)
    ELSE IF KeyCol \notin df_catalogue.columns
    THEN Failure(df_portal, CatalogueKeyMsg)
    ELSE IF TargetCol \notin df_catalogue.columns
    THEN Failure(df_portal, CatalogueTargetMsg)
    ELSE LET catalogue_asins == tolist(df_catalogue, KeyCol)
             catalogue_new_eans == tolist(df_catalogue, TargetCol)
             \* df_portal["New EAN"] = df_portal["ASIN"].apply(match_asin)
             assigned ==
                [columns |-> df_portal.columns \cup {TargetCol},
                 rows |-> [i \in 1..Len(df_portal.rows) |->
                     WithColumn(df_portal.rows[i], df_portal.columns, TargetCol,
                                match_asin(df_portal.rows[i][KeyCol],
                                           catalogue_asins, catalogue_new_eans,
                                           threshold))]]
         IN [ret |-> assigned, errors |-> <<>>, portal |-> assigned,
             alias |-> TRUE, ran |-> TRUE]

(* ------------------------------- state --------------------------------- *)
VARIABLES
    df_portal,        \* the portal table object
    df_catalogue,     \* the catalogue table object
    df_mapped,        \* what the mapping function returned (None or a table)
    mapped_is_portal, \* the returned object is the portal object itself
    errors,           \* messages shown through st.error
    exported,         \* the spreadsheet was built and offered for download
    pc,               \* "start", "loaded", "mapped", "returned", "done"
    portal0,          \* the portal table as loaded
    catalogue0,       \* the catalogue table as loaded
    method,           \* "none", "rule", "fuzzy": the function that was called
    threshold,        \* the threshold passed to fuzzy_mapping
    ran               \* the join / match step of the call was executed

vars == <<df_portal, df_catalogue, df_mapped, mapped_is_portal, errors,
          exported, pc, portal0, catalogue0, method, threshold, ran>>

Init ==
    /\ df_portal = EmptyTable
    /\ df_catalogue = EmptyTable
    /\ df_mapped = None
    /\ mapped_is_portal = FALSE
    /\ errors = <<>>
    /\ exported = FALSE
    /\ pc = "start"
    /\ portal0 = EmptyTable
    /\ catalogue0 = EmptyTable
    /\ method = "none"
    /\ threshold = DefaultThreshold
    /\ ran = FALSE

\* main, lines 79-95: both files are uploaded and read into tables
LoadFiles ==
    /\ pc = "start"
    /\ \E p \in PortalTables, c \in CatalogueTables :
          /\ df_portal' = p
          /\ df_catalogue' = c
          /\ portal0' = p
          /\ catalogue0' = c
    /\ pc' = "loaded"
    /\ UNCHANGED <<df_mapped, mapped_is_portal, errors, exported, method,
                   threshold, ran>>

\* the effect of a call on the state, shared by the four calling actions
Returns(res, m, t, nextpc) ==
    /\ df_mapped' = res.ret
    /\ df_portal' = res.portal
    /\ mapped_is_portal' = res.alias
    /\ errors' = errors \o res.errors
    /\ ran' = res.ran
    /\ method' = m
    /\ threshold' = t
    /\ pc' = nextpc
    /\ UNCHANGED <<df_catalogue, exported, portal0, catalogue0>>

\* main, lines 98-99
MainRuleBased ==
    /\ pc = "loaded"
    /\ Returns(rule_based_mapping(df_portal, df_catalogue), "rule", threshold,
               "mapped")

\* main, lines 100-102: the threshold comes from a slider over 50..100
MainFuzzy ==
    /\ pc = "loaded"
    /\ \E t \in SliderValues :
          Returns(fuzzy_mapping(df_portal, df_catalogue, t), "fuzzy", t, "mapped")

\* rule_based_mapping called by another caller than main
CallRuleBased ==
    /\ pc = "loaded"
    /\ Returns(rule_based_mapping(df_portal, df_catalogue), "rule", threshold,
               "returned")

\* fuzzy_mapping called by another caller than main, with any threshold
CallFuzzy ==
    /\ pc = "loaded"
    /\ \E t \in Thresholds :
          Returns(fuzzy_mapping(df_portal, df_catalogue, t), "fuzzy", t,
                  "returned")

\* the export made whatever the mapping function returned
MainExport_unguarded ==
    /\ pc = "mapped"
    /\ exported' = TRUE
    /\ pc' = "done"
    /\ UNCHANGED <<df_portal, df_catalogue, df_mapped, mapped_is_portal, errors,
                   portal0, catalogue0, method, threshold, ran>>

\* main, lines 104-122: preview, spreadsheet and download button, only when
\* a table came back
MainExport ==
    /\ pc = "mapped"
    /\ exported' = (df_mapped # None)
    /\ pc' = "done"
    /\ UNCHANGED <<df_portal, df_catalogue, df_mapped, mapped_is_portal, errors,
                   portal0, catalogue0, method, threshold, ran>>

Next ==
    \/ LoadFiles
    \/ MainRuleBased
    \/ MainFuzzy
    \/ CallRuleBased
    \/ CallFuzzy
    \/ MainExport

Spec == Init /\ [][Next]_vars

(* ----------------------- vocabulary of the claims ---------------------- *)
Called == method # "none"

\* the three column checks hold of the tables as loaded
Valid ==
    /\ KeyCol \in portal0.columns
    /\ KeyCol \in catalogue0.columns
    /\ TargetCol \in catalogue0.columns

Returned == df_mapped # None

PortalKey(i) == portal0.rows[i][KeyCol]
CatKey(j) == catalogue0.rows[j][KeyCol]
CatTarget(j) == catalogue0.rows[j][TargetCol]
CatIdx == 1..Len(catalogue0.rows)
OutIdx == 1..Len(df_mapped.rows)
OutKey(i) == df_mapped.rows[i][KeyCol]
OutTarget(i) == df_mapped.rows[i][TargetCol]
Score(i, j) == ratio(PortalKey(i), CatKey(j))

\* C1: on validated inputs the table returned by rule_based_mapping and by
\* fuzzy_mapping has exactly as many records as the portal table.
C1_RowCount ==
    (Called /\ Valid) =>
        (Returned /\ Len(df_mapped.rows) = Len(portal0.rows))

\* C2: on validated inputs the key column of the returned table, read in
\* order, equals the key column of the portal table, read in order.
C2_KeyOrder ==
    (Called /\ Valid) =>
        (Returned /\ tolist(df_mapped, KeyCol) = tolist(portal0, KeyCol))

\* C3: rule_based_mapping gives a portal key that occurs in the catalogue the
\* target of the LAST catalogue record carrying that key.
C3_LastWriteWins ==
    (method = "rule" /\ Valid) =>
        (Returned /\
         \A i \in OutIdx :
            \A j \in CatIdx :
                (CatKey(j) = OutKey(i)
                 /\ \A k \in CatIdx : k > j => CatKey(k) # OutKey(i))
                    => OutTarget(i) = CatTarget(j))

\* C4: in the output of rule_based_mapping every portal record is present;
\* a record whose key occurs in the catalogue carries the target of a
\* catalogue record with that key, and a record whose key does not occur in
\* the catalogue carries null.
C4_ExactJoin ==
    (method = "rule" /\ Valid) =>
        /\ Returned
        /\ \A p \in 1..Len(portal0.rows) :
              \E i \in OutIdx : OutKey(i) = PortalKey(p)
        /\ \A i \in OutIdx :
              /\ \E p \in 1..Len(portal0.rows) : PortalKey(p) = OutKey(i)
              /\ IF \E j \in CatIdx : CatKey(j) = OutKey(i)
                 THEN \E j \in CatIdx :
                        CatKey(j) = OutKey(i) /\ OutTarget(i) = CatTarget(j)
                 ELSE OutTarget(i) = NaN

\* a validated exact join with one portal key found in the catalogue and
\* one portal key absent from it
C4_Witness ==
    /\ method = "rule" /\ Valid /\ Returned
    /\ \E i \in OutIdx : OutTarget(i) # NaN
    /\ \E i \in OutIdx :
          OutTarget(i) = NaN /\ \A j \in CatIdx : CatKey(j) # OutKey(i)
    /\ catalogue0.rows # <<>>

\* C5: fuzzy_mapping sets the target of a portal record to a catalogue target
\* exactly when the best similarity score over the catalogue keys is at
\* least the threshold, and to null otherwise (always null on an empty
\* catalogue).
C5_Threshold ==
    (method = "fuzzy" /\ Valid) =>
        /\ Returned
        /\ Len(df_mapped.rows) = Len(portal0.rows)
        /\ \A i \in OutIdx :
              /\ (OutTarget(i) # NaN) <=>
                    (\E j \in CatIdx : ScoreAtLeast(Score(i, j), threshold))
              /\ OutTarget(i) # NaN => \E j \in CatIdx : OutTarget(i) = CatTarget(j)

\* a portal record whose best score equals the threshold and is accepted
C5_Witness ==
    /\ method = "fuzzy" /\ Valid /\ Returned
    /\ \E i \in OutIdx :
          /\ OutTarget(i) # NaN
          /\ \A j \in CatIdx : ~ScoreAtLeast(Score(i, j), threshold + 1)
          /\ \E j \in CatIdx : Score(i, j).num = threshold * Score(i, j).den

\* C6: a portal record accepted by fuzzy_mapping gets the target of the
\* first catalogue record, in catalogue order, among those with the maximum
\* similarity score.
C6_BestMatch ==
    (method = "fuzzy" /\ Valid /\ Returned) =>
        \A i \in OutIdx :
            OutTarget(i) # NaN =>
                \E j \in CatIdx :
                    /\ OutTarget(i) = CatTarget(j)
                    /\ \A k \in CatIdx : ScoreGE(Score(i, j), Score(i, k))
                    /\ \A k \in CatIdx : k < j => ScoreGT(Score(i, j), Score(i, k))

\* an accepted portal record whose maximum score is shared by two catalogue
\* records with different targets, and one whose best record comes second
C6_Witness ==
    /\ method = "fuzzy" /\ Valid /\ Returned
    /\ \E i \in OutIdx :
          /\ OutTarget(i) # NaN
          /\ \E j, k \in CatIdx :
                /\ j < k
                /\ CatTarget(j) # CatTarget(k)
                /\ Score(i, j).num * Score(i, k).den = Score(i, k).num * Score(i, j).den
                /\ OutTarget(i) = CatTarget(j)
    /\ \E i \in OutIdx :
          /\ OutTarget(i) # NaN
          /\ \E j, k \in CatIdx :
                /\ j < k
                /\ CatTarget(j) # CatTarget(k)
                /\ ScoreGT(Score(i, k), Score(i, j))
                /\ OutTarget(i) = CatTarget(k)

\* C7: both functions make the three column checks before the join/match
\* step, in the order portal key, catalogue key, catalogue target; a call
\* fails at the first check that does not hold, reports that check alone and
\* runs no join or match.
C7_ValidationOrder ==
    Called =>
        IF KeyCol \notin portal0.columns
        THEN errors = <<PortalKeyMsg>> /\ ~Returned /\ ~ran
        ELSE IF KeyCol \notin catalogue0.columns
        THEN errors = <<CatalogueKeyMsg>> /\ ~Returned /\ ~ran
        ELSE IF TargetCol \notin catalogue0.columns
        THEN errors = <<CatalogueTargetMsg>> /\ ~Returned /\ ~ran
        ELSE errors = <<>> /\ Returned /\ ran

\* a call on a portal without the key column and a catalogue without it too
C7_Witness ==
    /\ Called
    /\ KeyCol \notin portal0.columns
    /\ KeyCol \notin catalogue0.columns
    /\ TargetCol \notin catalogue0.columns
    /\ errors = <<PortalKeyMsg>>

\* C8: a call of fuzzy_mapping with a threshold outside 0..100 is rejected
\* at entry: no table is returned and no portal record is matched.
C8_InvalidThreshold ==
    (method = "fuzzy" /\ (threshold < 0 \/ threshold > 100)) =>
        (~Returned /\ ~ran)

\* C9: after a call of either function the portal and the catalogue tables
\* are as they were before it, and the returned table is another object
\* than the portal table.
C9_InputFrame ==
    Called =>
        /\ df_portal = portal0
        /\ df_catalogue = catalogue0
        /\ Returned => ~mapped_is_portal

\* C10: a failing column check makes the function return None and leave no
\* partial result, and main exports only after a call that returned a table,
\* never after a validation failure.
C10_NoExportAfterFailure ==
    /\ (Called /\ ~Valid) => (~Returned /\ df_portal = portal0 /\ ~exported)
    /\ exported => (Called /\ Returned /\ Valid /\ errors = <<>>)
    /\ (pc = "done" /\ Returned) => exported

\* a run of main that ended after a validation failure, and without export
C10_Witness ==
    /\ pc = "done"
    /\ Called /\ ~Valid
    /\ errors # <<>>
    /\ ~exported
====
